---- MODULE Spec2Model ----
(***************************************************************************)
(* Model of the multilingual EdTech backend.                               *)
(*                                                                         *)
(*  - ChatService (services/chatService.js): the in-memory activeContexts  *)
(*    map and the operations that read and write it.  A sendMessage call   *)
(*    is split at its only suspension point that matters for the map (the  *)
(*    await of detectIntent): the part before it is SendMessage /          *)
(*    SendEducationalQuery, the part after it is DetectIntentResolves /    *)
(*    DetectIntentRejects.  Upstream calls of different requests may       *)
(*    settle in any order.                                                 *)
(*  - The HTTP handlers (controllers and routes): one action per handler,  *)
(*    from the request to the single response, counting adapter calls.     *)
(*  - The Express pipeline of one request in flight, layer by layer.       *)
(*  - The pure methods of the services and the language detection          *)
(*    middleware, applied to inputs drawn from bounded sets.               *)
(*  - The server process (server.js): start-up, database connection,       *)
(*    retry and shutdown on a signal.                                      *)
(*                                                                         *)
(* Timestamps (startTime, lastActivity, entry.timestamp) and the upstream  *)
(* payload fields copied into a history entry (botResponse, intent,        *)
(* confidence) are left out: no operation reads them back.                 *)
(***************************************************************************)
EXTENDS Integers, Sequences, FiniteSets, TLC

\* ------------------------------------------------------------------ bounds
MaxArrivals == 3        \* sendMessage calls per run of Spec (all sessions)
MaxPending == 2         \* sendMessage calls in flight at once in Spec
MaxSeqArrivals == 52    \* sequential sendMessage calls per session in SpecTrim
MaxClears == 1          \* clearConversation calls per run of Spec
MaxPrefs == 1           \* setEducationalPreferences calls per run of Spec

\* ------------------------------------------------------- program constants
MaxHistory == 50        \* context.messages.length > 50 / slice(-50)

Sessions == {"s1", "s2"}
NoSubject == "undefined"                 \* options.subject not given
Subjects == {"math", "science"}
PrefValues == {"beginner", "advanced"}
NoPrefs == "none"                        \* preferences: {}

VARIABLES
  activeContexts,  \* ChatService.activeContexts: Map sessionId -> context
  pending,         \* sendMessage calls suspended in await detectIntent
  arrived,         \* per session: number of sendMessage calls accepted so far
  completions,     \* per session: entries appended since the last clear, in order
  prefsSet,        \* per session: preferences were set since the last clear
  clears,          \* number of clearConversation calls so far
  prefCalls,       \* number of setEducationalPreferences calls so far
  lastOp,          \* the operation that completed last, and its outcome
  http,            \* the last HTTP exchange handled by a controller
  call,            \* a service method applied to an upstream payload: its input and result
  proc             \* the server process: start-up, database connection, shutdown

chatVars == <<activeContexts, pending, arrived, completions, prefsSet, clears,
              prefCalls, lastOp>>
vars == <<activeContexts, pending, arrived, completions, prefsSet, clears,
          prefCalls, lastOp, http, call, proc>>

\* ------------------------------------------------------------ JS helpers
Min(a, b) == IF a < b THEN a ELSE b

\* Array.prototype.slice(-k)
SliceLast(seq, k) ==
  IF Len(seq) <= k THEN seq ELSE SubSeq(seq, Len(seq) - k + 1, Len(seq))

\* Array.prototype.includes
Includes(seq, x) == \E i \in DOMAIN seq : seq[i] = x

\* Map.prototype.has / set / delete
MapHas(map, key) == key \in DOMAIN map
MapSet(map, key, value) ==
  [k \in DOMAIN map \cup {key} |-> IF k = key THEN value ELSE map[k]]
MapDelete(map, key) == [k \in DOMAIN map \ {key} |-> map[k]]

\* ------------------------------------------------------------ ChatService
createNewContext(sessionId) ==
  [sessionId |-> sessionId, messages |-> <<>>, subjects |-> <<>>,
   preferences |-> NoPrefs]

\* this.activeContexts.get(sessionId) || this.createNewContext(sessionId)
GetOrCreate(map, sessionId) ==
  IF MapHas(map, sessionId) THEN map[sessionId] ELSE createNewContext(sessionId)

messageEntry(message, response) ==
  [userMessage |-> message, subject |-> response.subject]

\* a plausible slip: the context is rebuilt instead of fetched
updateConversationContext_fresh(map, sessionId, message, response) ==
  LET context == createNewContext(sessionId)
      pushed == Append(context.messages, messageEntry(message, response))
  IN MapSet(map, sessionId,
            [context EXCEPT !.messages = pushed,
                            !.subjects = IF response.subject # NoSubject
                                         THEN <<response.subject>> ELSE <<>>])

\* a plausible slip: slice(50) keeps what is after the first 50 entries
updateConversationContext_head(map, sessionId, message, response) ==
  LET context == GetOrCreate(map, sessionId)
      pushed == Append(context.messages, messageEntry(message, response))
      tracked == IF response.subject # NoSubject
                    /\ ~Includes(context.subjects, response.subject)
                 THEN Append(context.subjects, response.subject)
                 ELSE context.subjects
      trimmed == IF Len(pushed) > MaxHistory
                 THEN SubSeq(pushed, 1, MaxHistory) ELSE pushed
  IN MapSet(map, sessionId,
            [context EXCEPT !.messages = trimmed, !.subjects = tracked])

\* a plausible slip: the includes() test is dropped
updateConversationContext_dup(map, sessionId, message, response) ==
  LET context == GetOrCreate(map, sessionId)
      pushed == Append(context.messages, messageEntry(message, response))
      tracked == IF response.subject # NoSubject
                 THEN Append(context.subjects, response.subject)
                 ELSE context.subjects
      trimmed == IF Len(pushed) > MaxHistory
                 THEN SliceLast(pushed, MaxHistory) ELSE pushed
  IN MapSet(map, sessionId,
            [context EXCEPT !.messages = trimmed, !.subjects = tracked])

updateConversationContext(map, sessionId, message, response) ==
  LET context == GetOrCreate(map, sessionId)
      pushed == Append(context.messages, messageEntry(message, response))
      tracked == IF response.subject # NoSubject
                    /\ ~Includes(context.subjects, response.subject)
                 THEN Append(context.subjects, response.subject)
                 ELSE context.subjects
      trimmed == IF Len(pushed) > MaxHistory
                 THEN SliceLast(pushed, MaxHistory) ELSE pushed
  IN MapSet(map, sessionId,
            [context EXCEPT !.messages = trimmed, !.subjects = tracked])

\* a plausible slip: the failed message is recorded in the history
sendMessageCatch_record(map, sessionId) ==
  updateConversationContext(map, sessionId, 0, [subject |-> NoSubject])

\* a plausible slip: the catch block drops the session's context
sendMessageCatch_drop(map, sessionId) == MapDelete(map, sessionId)

\* the catch block of sendMessage: log and rethrow, the map is not touched
sendMessageCatch(map, sessionId) == map

\* a plausible slip: this.activeContexts.clear()
clearLocalContext_all(map, sessionId) == << >>

\* a plausible slip: the local context is cleared to an empty one, not deleted
clearLocalContext_keep(map, sessionId) ==
  MapSet(map, sessionId, createNewContext(sessionId))

\* this.activeContexts.delete(sessionId)
clearLocalContext(map, sessionId) == MapDelete(map, sessionId)

\* a plausible slip: the local delete is done whether or not the upstream
\* calls succeeded
clearConversationCatch_delete(map, sessionId) == MapDelete(map, sessionId)

\* the catch block of clearConversation: log and rethrow
clearConversationCatch(map, sessionId) == map

\* context.preferences = {...context.preferences, ...preferences}
setPreferences(map, sessionId, preferences) ==
  LET context == GetOrCreate(map, sessionId)
  IN MapSet(map, sessionId, [context EXCEPT !.preferences = preferences])

PendingOf(s) == {p \in pending : p.sessionId = s}
TotalArrived == arrived["s1"] + arrived["s2"]

ChatInit ==
  /\ activeContexts = << >>
  /\ pending = {}
  /\ arrived = [s \in Sessions |-> 0]
  /\ completions = [s \in Sessions |-> <<>>]
  /\ prefsSet = [s \in Sessions |-> FALSE]
  /\ clears = 0
  /\ prefCalls = 0
  /\ lastOp = [op |-> "none", sessionId |-> "none", ok |-> TRUE]

\* sendMessage up to the await of detectIntent.  message is blank or not;
\* a missing sessionId is replaced by a generated one, which is a session
\* that was never used.
Accept(op, s, subject, maxArrivals, maxPending) ==
  /\ TotalArrived < maxArrivals
  /\ arrived[s] < MaxSeqArrivals
  /\ Cardinality(pending) < maxPending
  /\ arrived' = [arrived EXCEPT ![s] = @ + 1]
  /\ pending' = pending \cup
        {[sessionId |-> s, message |-> arrived[s] + 1, subject |-> subject]}
  /\ UNCHANGED <<activeContexts, completions, prefsSet, clears, prefCalls, lastOp, http, call, proc>>

SendMessageTo(s, subject) == Accept("sendMessage", s, subject, MaxArrivals, MaxPending)

SendMessage == \E s \in Sessions, subject \in Subjects \cup {NoSubject} :
  SendMessageTo(s, subject)

\* sendMessage without a sessionId: generateSessionId() yields an unused id
SendMessageNewSession ==
  \E s \in Sessions :
    /\ arrived[s] = 0 /\ ~MapHas(activeContexts, s)
    /\ Accept("sendMessage", s, NoSubject, MaxArrivals, MaxPending)

\* sendMessage with a blank message: throws before anything else happens
SendMessageBlank ==
  \E s \in Sessions :
    /\ lastOp' = [op |-> "sendMessage", sessionId |-> s, ok |-> FALSE]
    /\ activeContexts' = sendMessageCatch(activeContexts, s)
    /\ UNCHANGED <<pending, arrived, completions, prefsSet, clears, prefCalls, http, call, proc>>

\* sendEducationalQuery: sendMessage with options.subject = subject
SendEducationalQuery ==
  \E s \in Sessions, subject \in Subjects \cup {NoSubject} :
    Accept("sendEducationalQuery", s, subject, MaxArrivals, MaxPending)

\* detectIntent resolved: processEducationalResponse, then the synchronous
\* updateConversationContext
Resolve(p) ==
  /\ pending' = pending \ {p}
  /\ activeContexts' = updateConversationContext(activeContexts, p.sessionId,
                          p.message, [subject |-> p.subject])
  /\ completions' = [completions EXCEPT ![p.sessionId] =
                        Append(@, messageEntry(p.message, [subject |-> p.subject]))]
  /\ lastOp' = [op |-> "sendMessage", sessionId |-> p.sessionId, ok |-> TRUE]
  /\ UNCHANGED <<arrived, prefsSet, clears, prefCalls, http, call, proc>>

DetectIntentResolves == \E p \in pending : Resolve(p)

\* detectIntent rejected: the catch block rethrows
DetectIntentRejects ==
  \E p \in pending :
    /\ pending' = pending \ {p}
    /\ activeContexts' = sendMessageCatch(activeContexts, p.sessionId)
    /\ lastOp' = [op |-> "sendMessage", sessionId |-> p.sessionId, ok |-> FALSE]
    /\ UNCHANGED <<arrived, completions, prefsSet, clears, prefCalls, http, call, proc>>

GetConversationHistory ==
  \E s \in Sessions :
    /\ lastOp' = [op |-> "getConversationHistory", sessionId |-> s, ok |-> TRUE]
    /\ UNCHANGED <<activeContexts, pending, arrived, completions, prefsSet,
                   clears, prefCalls, http, call, proc>>

\* clearConversation whose upstream listContexts/deleteContext calls succeed
ClearConversation ==
  \E s \in Sessions :
    /\ clears < MaxClears
    /\ clears' = clears + 1
    /\ activeContexts' = clearLocalContext(activeContexts, s)
    /\ completions' = [completions EXCEPT ![s] = <<>>]
    /\ prefsSet' = [prefsSet EXCEPT ![s] = FALSE]
    /\ lastOp' = [op |-> "clearConversation", sessionId |-> s, ok |-> TRUE]
    /\ UNCHANGED <<pending, arrived, prefCalls, http, call, proc>>

\* clearConversation whose upstream calls fail: the local delete is not reached
ClearConversationFails ==
  \E s \in Sessions :
    /\ clears < MaxClears
    /\ clears' = clears + 1
    /\ activeContexts' = clearConversationCatch(activeContexts, s)
    /\ lastOp' = [op |-> "clearConversation", sessionId |-> s, ok |-> FALSE]
    /\ UNCHANGED <<pending, arrived, completions, prefsSet, prefCalls, http, call, proc>>

SetEducationalPreferences ==
  \E s \in Sessions, preferences \in PrefValues :
    /\ prefCalls < MaxPrefs
    /\ prefCalls' = prefCalls + 1
    /\ activeContexts' = setPreferences(activeContexts, s, preferences)
    /\ prefsSet' = [prefsSet EXCEPT ![s] = TRUE]
    /\ lastOp' = [op |-> "setEducationalPreferences", sessionId |-> s, ok |-> TRUE]
    /\ UNCHANGED <<pending, arrived, completions, clears, http, call, proc>>

\* ------------------------------------------------------------ HTTP layer
\* A text field of a JSON body: undefined (or another falsy value), a string
\* of a given length that is whitespace-only or not, or a truthy non-string.
TextLens == {0, 1, 2000, 2001, 5000, 5001, 100000, 100001}
TMissing == [kind |-> "missing", len |-> 0, blank |-> TRUE]
TNonString == [kind |-> "nonstring", len |-> 0, blank |-> FALSE]
TString(n, b) == [kind |-> "string", len |-> n, blank |-> b]
Texts == {TMissing, TNonString}
           \cup {TString(n, b) : n \in TextLens \ {0}, b \in BOOLEAN}
           \cup {TString(0, TRUE)}

Falsy(t) == t.kind = "missing" \/ (t.kind = "string" /\ t.len = 0)
\* t.trim().length === 0, for a string t
TrimIsEmpty(t) == t.blank

Absent == "undefined"
LangInputs == {Absent, "en", "hi", "pa", "EN", "english", "hindi", "punjabi", "xx"}
\* String.prototype.toLowerCase on the language inputs
ToLowerCase(l) == IF l = "EN" THEN "en" ELSE IF l = "A" THEN "a" ELSE l
ShortCodes == {"en", "hi", "pa"}
FullNames == {"english", "hindi", "punjabi"}
\* const { language = 'en' } = req.body
Default(v, d) == IF v = Absent THEN d ELSE v

CheckTypes == {"comprehensive", "spelling", "grammar", "punctuation", "style"}
CheckTypeInputs == {Absent, "comprehensive", "style", "bogus"}
MessageTypes == {"text", "grammar_question", "pronunciation_help", "exercise_request"}
MessageTypeInputs == {Absent, "text", "exercise_request", "bogus"}
EvaluationTypes == {"pronunciation", "fluency", "accuracy", "completeness", "comprehensive"}
EvaluationTypeInputs == {Absent, "fluency", "bogus"}

\* what an adapter call does: it returns, or it throws an Error whose message
\* contains one of these texts ("other": none of them)
AdapterErrors == {"quota exceeded", "unsupported language", "session expired",
                  "inappropriate content", "invalid image", "invalid formatting",
                  "font not supported", "audio too short", "audio too long",
                  "no speech detected", "other"}
AdapterOutcomes == {"ok"} \cup AdapterErrors
\* the message of a TypeError thrown by the handler's own code
TypeError == "is not a function"

\* A response: the status passed to res.status, the message of the body, the
\* number of adapter calls made before it was sent, and the shape of the
\* object literal handed to res.json (or "download" for res.send(buffer)):
\*   "success"  {success: true, message, data}
\*   "failure"  {success: false, message} (with errors: [...] after validationResult)
\*   "caught"   {success: false, message, error: NODE_ENV === 'development' ? error.message : undefined}
\*   "raw"      {success: false, message, error: error.message}
\*   "stub"     {message}
\*   "notFound", "global": the bodies of the two handlers of app.js
Shaped(status, message, calls, i, shape) ==
  [status |-> status, message |-> message, adapterCalls |-> calls, index |-> i,
   shape |-> shape]
Response(status, message, calls) ==
  Shaped(status, message, calls, -1, IF status \in {200, 201} THEN "success" ELSE "failure")
\* a response whose message names the index of a batch item
ItemResponse(status, message, i) == Shaped(status, message, 0, i, "failure")
\* the last statement of a catch block
Caught(message, calls) == Shaped(500, message, calls, -1, "caught")
\* res.status(200).send(buffer), after the Content-Type header is set
Download(type, calls) == Shaped(200, type, calls, -1, "download")

\* ---- app.js: the global error handler, which an error thrown by a
\* middleware or passed to next() reaches; the status is error.status || 500
globalErrorHandler(message) == Shaped(500, message, 0, -1, "global")

BadRequest(message) == Response(400, message, 0)
ValidationFailedMsg == "Validation failed"
UnsupportedLanguageMsg ==
  "Unsupported language. Supported languages: English (en), Hindi (hi), Punjabi (pa)"

\* ---- controllers/grammarController.js
checkGrammarCatch(err, calls) ==
  IF err = "unsupported language"
  THEN Response(400, "Language not supported by grammar service.", calls)
  ELSE IF err = "quota exceeded"
  THEN Response(429, "Grammar check quota exceeded. Please try again later.", calls)
  ELSE Caught("Internal server error during grammar check.", calls)

checkGrammar(req, outcome) ==
  LET language == Default(req.language, "en")
      checkType == Default(req.checkType, "comprehensive")
  IN IF req.validationErrors THEN BadRequest(ValidationFailedMsg)
     ELSE IF Falsy(req.text)
       THEN Response(400, "Text is required for grammar checking.", 0)
     ELSE IF req.text.kind = "nonstring" THEN checkGrammarCatch(TypeError, 0)
     ELSE IF TrimIsEmpty(req.text)
       THEN Response(400, "Text is required for grammar checking.", 0)
     ELSE IF req.text.len > 5000
       THEN Response(400, "Text exceeds maximum length of 5000 characters.", 0)
     ELSE IF ToLowerCase(language) \notin ShortCodes
       THEN BadRequest(UnsupportedLanguageMsg)
     ELSE IF checkType \notin CheckTypes
       THEN Response(400, "Invalid check type. Supported types: comprehensive, spelling, grammar, punctuation, style", 0)
     ELSE IF outcome = "ok"
       THEN Response(200, "Grammar check completed successfully.", 1)
     ELSE checkGrammarCatch(outcome, 1)

\* ---- routes/grammar.js: the validator; "next" means the controller runs
\* with the returned body
validateGrammarRequest(req) ==
  IF Falsy(req.text) THEN Response(400, "Text is required for grammar checking.", 0)
  ELSE IF req.text.kind = "nonstring" THEN globalErrorHandler(TypeError)
  ELSE IF TrimIsEmpty(req.text)
    THEN Response(400, "Text is required for grammar checking.", 0)
  ELSE IF req.language # Absent /\ ToLowerCase(req.language) \notin FullNames
    THEN Response(400, "Supported languages are: English, Hindi, Punjabi.", 0)
  ELSE Response(0, "next", 0)

grammarRouteBody(req) ==
  IF req.language = Absent THEN [req EXCEPT !.language = "english"] ELSE req

\* the loop of batchGrammarCheck over texts[i], from index i (1-based here)
RECURSIVE batchValidateFrom(_, _)
batchValidateFrom(texts, i) ==
  IF i > Len(texts) THEN Response(0, "valid", 0)
  ELSE IF Falsy(texts[i])
    THEN ItemResponse(400, "Text at index is empty or invalid", i - 1)
  ELSE IF texts[i].kind = "nonstring"
    THEN Caught("Failed to complete batch grammar check", 0)
  ELSE IF TrimIsEmpty(texts[i])
    THEN ItemResponse(400, "Text at index is empty or invalid", i - 1)
  ELSE IF texts[i].len > 2000
    THEN ItemResponse(400, "Text at index exceeds maximum length of 2000 characters for batch processing", i - 1)
  ELSE batchValidateFrom(texts, i + 1)

\* req.texts: [isArray, items]
batchGrammarCheck(req, outcome) ==
  IF req.validationErrors THEN BadRequest(ValidationFailedMsg)
  ELSE IF ~req.texts.isArray \/ Len(req.texts.items) = 0
    THEN Response(400, "Array of texts is required for batch processing", 0)
  ELSE IF Len(req.texts.items) > 20
    THEN Response(400, "Maximum 20 texts allowed for batch processing", 0)
  ELSE IF batchValidateFrom(req.texts.items, 1).status # 0
    THEN batchValidateFrom(req.texts.items, 1)
  ELSE IF outcome = "ok"
    THEN Response(200, "Batch grammar check completed successfully", 1)
  ELSE Caught("Failed to complete batch grammar check", 1)

\* ---- app.js: a request under /api that no router handles
apiNotFound(req) == Shaped(404, "API endpoint not found", 0, -1, "notFound")

\* routes/grammar.js registers POST / only
GrammarRoutes == {<<"POST", "/">>}

\* ---- controllers/chatController.js
chatSendMessageCatch(err, calls) ==
  IF err = "session expired"
  THEN Response(401, "Chat session expired. Please start a new session.", calls)
  ELSE IF err = "quota exceeded"
  THEN Response(429, "Chat service quota exceeded. Please try again later.", calls)
  ELSE IF err = "inappropriate content"
  THEN Response(400, "Message contains inappropriate content and cannot be processed", calls)
  ELSE Caught("Internal server error during chat processing", calls)

chatSendMessage(req, outcome) ==
  LET language == Default(req.language, "en")
      messageType == Default(req.messageType, "text")
  IN IF req.validationErrors THEN BadRequest(ValidationFailedMsg)
     ELSE IF ~req.hasUser THEN chatSendMessageCatch(TypeError, 0)
     ELSE IF Falsy(req.message) THEN Response(400, "Message is required", 0)
     ELSE IF req.message.kind = "nonstring" THEN chatSendMessageCatch(TypeError, 0)
     ELSE IF TrimIsEmpty(req.message) THEN Response(400, "Message is required", 0)
     ELSE IF req.message.len > 2000
       THEN Response(400, "Message exceeds maximum length of 2000 characters", 0)
     ELSE IF ~req.hasSessionId THEN Response(400, "Session ID is required", 0)
     ELSE IF language \notin ShortCodes THEN BadRequest(UnsupportedLanguageMsg)
     ELSE IF messageType \notin MessageTypes
       THEN Response(400, "Invalid message type. Supported types: text, grammar_question, pronunciation_help, exercise_request", 0)
     ELSE IF outcome = "ok" THEN Response(200, "Message sent successfully", 1)
     ELSE chatSendMessageCatch(outcome, 1)

SessionTypes == {"general", "grammar_focused", "pronunciation_focused", "writing_help"}
SessionTypeInputs == {Absent, "general", "writing_help", "bogus"}

startChatSession(req, outcome) ==
  LET language == Default(req.language, "en")
      sessionType == Default(req.sessionType, "general")
  IN IF req.validationErrors THEN BadRequest(ValidationFailedMsg)
     ELSE IF ~req.hasUser THEN Caught("Failed to start chat session", 0)
     ELSE IF language \notin ShortCodes THEN BadRequest(UnsupportedLanguageMsg)
     ELSE IF sessionType \notin SessionTypes
       THEN Response(400, "Invalid session type. Supported types: general, grammar_focused, pronunciation_focused, writing_help", 0)
     ELSE IF outcome = "ok" THEN Response(201, "Chat session started successfully", 1)
     ELSE Caught("Failed to start chat session", 1)

\* ---- routes/chat.js (the context field is left out of the requests: it is
\* checked only when given)
validateChatRequest(req) ==
  IF Falsy(req.message)
    THEN Response(400, "Message is required for chat interaction.", 0)
  ELSE IF req.message.kind = "nonstring" THEN globalErrorHandler(TypeError)
  ELSE IF TrimIsEmpty(req.message)
    THEN Response(400, "Message is required for chat interaction.", 0)
  ELSE IF req.language # Absent /\ ToLowerCase(req.language) \notin FullNames
    THEN Response(400, "Supported languages are: English, Hindi, Punjabi.", 0)
  ELSE Response(0, "next", 0)

chatRouteBody(req) ==
  IF req.language = Absent THEN [req EXCEPT !.language = "english"] ELSE req

\* ---- controllers/exportController.js
\* the export adapter is called twice on the success path: generate*Document,
\* then logExportActivity; outcome is the first failure, if any
exportToDocxCatch(err, calls) ==
  IF err = "invalid formatting"
  THEN Response(400, "Invalid formatting options provided", calls)
  ELSE IF err = "font not supported"
  THEN Response(400, "Specified font is not supported for the selected language", calls)
  ELSE Caught("Internal server error during document export", calls)

exportToDocx(req, outcome, logOutcome) ==
  LET language == Default(req.language, "en")
  IN IF req.validationErrors THEN BadRequest(ValidationFailedMsg)
     ELSE IF Falsy(req.text)
       THEN Response(400, "Text content is required for document export", 0)
     ELSE IF req.text.kind = "nonstring" THEN exportToDocxCatch(TypeError, 0)
     ELSE IF TrimIsEmpty(req.text)
       THEN Response(400, "Text content is required for document export", 0)
     ELSE IF req.text.len > 100000
       THEN Response(400, "Text content exceeds maximum length of 100,000 characters", 0)
     ELSE IF language \notin ShortCodes THEN BadRequest(UnsupportedLanguageMsg)
     ELSE IF ~req.hasUser THEN exportToDocxCatch(TypeError, 0)
     ELSE IF outcome # "ok" THEN exportToDocxCatch(outcome, 1)
     ELSE IF logOutcome # "ok" THEN exportToDocxCatch(logOutcome, 2)
     ELSE Download("docx", 2)

exportToPdf(req, outcome, logOutcome) ==
  IF req.validationErrors THEN BadRequest(ValidationFailedMsg)
  ELSE IF Falsy(req.text)
    THEN Response(400, "Text content is required for PDF export", 0)
  ELSE IF req.text.kind = "nonstring"
    THEN Caught("Internal server error during PDF export", 0)
  ELSE IF TrimIsEmpty(req.text)
    THEN Response(400, "Text content is required for PDF export", 0)
  ELSE IF ~req.hasUser THEN Caught("Internal server error during PDF export", 0)
  ELSE IF outcome # "ok" THEN Caught("Internal server error during PDF export", 1)
  ELSE IF logOutcome # "ok" THEN Caught("Internal server error during PDF export", 2)
  ELSE Download("pdf", 2)

exportToText(req, outcome, logOutcome) ==
  IF req.validationErrors THEN BadRequest(ValidationFailedMsg)
  ELSE IF Falsy(req.text)
    THEN Response(400, "Text content is required for text export", 0)
  ELSE IF req.text.kind = "nonstring"
    THEN Caught("Internal server error during text export", 0)
  ELSE IF TrimIsEmpty(req.text)
    THEN Response(400, "Text content is required for text export", 0)
  ELSE IF ~req.hasUser THEN Caught("Internal server error during text export", 0)
  ELSE IF outcome # "ok" THEN Caught("Internal server error during text export", 1)
  ELSE IF logOutcome # "ok" THEN Caught("Internal server error during text export", 2)
  ELSE Download("txt", 2)

\* ---- uploads: req.file as multer leaves it; a mimetype is <<type, subtype>>
MimeTypes == {<<"image", "jpeg">>, <<"image", "jpg">>, <<"image", "png">>,
              <<"image", "webp">>, <<"image", "gif">>,
              <<"audio", "wav">>, <<"audio", "wave">>, <<"audio", "x-wav">>,
              <<"audio", "mpeg">>, <<"audio", "mp3">>, <<"audio", "mp4">>,
              <<"audio", "m4a">>, <<"audio", "webm">>, <<"audio", "ogg">>,
              <<"audio", "flac">>, <<"application", "pdf">>}
ImageAllowList == {<<"image", "jpeg">>, <<"image", "jpg">>, <<"image", "png">>,
                   <<"image", "webp">>}
AudioAllowList == {<<"audio", "wav">>, <<"audio", "wave">>, <<"audio", "x-wav">>,
                   <<"audio", "mpeg">>, <<"audio", "mp3">>, <<"audio", "mp4">>,
                   <<"audio", "m4a">>, <<"audio", "webm">>, <<"audio", "ogg">>}
\* the list in the fileFilter of routes/speech.js
SpeechFilterList == {<<"audio", "mpeg">>, <<"audio", "wav">>, <<"audio", "mp3">>,
                     <<"audio", "m4a">>, <<"audio", "webm">>}
ImageSizeCap == 5242880      \* 5 * 1024 * 1024
AudioSizeCap == 10485760     \* 10 * 1024 * 1024
FileSizes == {1, ImageSizeCap, ImageSizeCap + 1, AudioSizeCap, AudioSizeCap + 1}
Contents == {"genuine", "junk"}
NoFile == [present |-> FALSE, mimetype |-> <<"none", "none">>, size |-> 0,
           content |-> "none"]
Files == {NoFile} \cup
  {[present |-> TRUE, mimetype |-> m, size |-> z, content |-> c] :
     m \in MimeTypes, z \in FileSizes, c \in Contents}

\* ---- controllers/ocrController.js
extractTextCatch(err, calls) ==
  IF err = "quota exceeded"
  THEN Response(429, "OCR service quota exceeded. Please try again later.", calls)
  ELSE IF err = "invalid image"
  THEN Response(400, "Invalid or corrupted image file", calls)
  ELSE Caught("Internal server error during text extraction", calls)

extractText(req, outcome) ==
  LET language == Default(req.language, "en")
  IN IF req.validationErrors THEN BadRequest(ValidationFailedMsg)
     ELSE IF ~req.file.present THEN Response(400, "No image file uploaded", 0)
     ELSE IF language \notin ShortCodes THEN BadRequest(UnsupportedLanguageMsg)
     ELSE IF req.file.mimetype \notin ImageAllowList
       THEN Response(400, "Invalid file type. Supported formats: JPEG, JPG, PNG, WebP", 0)
     ELSE IF outcome = "ok" THEN Response(200, "Text extracted successfully", 1)
     ELSE extractTextCatch(outcome, 1)

\* ---- controllers/ocrController.js: a catch block that sends
\* error.message whatever NODE_ENV is
extractTextWithPreprocessing(req, outcome) ==
  IF ~req.file.present THEN Shaped(500, "OCR with preprocessing failed", 0, -1, "raw")
  ELSE IF outcome = "ok"
    THEN Response(200, "Text extracted with preprocessing successfully", 1)
  ELSE Shaped(500, "OCR with preprocessing failed", 1, -1, "raw")

\* ---- routes/ocr.js: multer's fileFilter and size limit give "next" or the
\* error handed to next(error): the message of the fileFilter's Error, or the
\* code of a MulterError
ocrMulter(req) ==
  IF ~req.file.present THEN "next"
  ELSE IF req.file.mimetype \notin ImageAllowList
    THEN "Only JPEG, PNG, JPG, and WebP images are allowed"
  ELSE IF req.file.size > ImageSizeCap THEN "LIMIT_FILE_SIZE"
  ELSE "next"

\* the router's error middleware, were it to end without next(error)
ocrRouterError_return(error) ==
  IF error = "LIMIT_FILE_SIZE"
    THEN Response(400, "File size too large. Maximum size is 5MB.", 0)
  ELSE IF error \in {"Only JPEG, PNG, JPG, and WebP images are allowed",
                     "Only image files are allowed"}
    THEN Response(400, "Only JPEG, PNG, JPG, and WebP images are allowed for OCR processing.", 0)
  ELSE Response(0, "return", 0)

\* the router's error middleware; "next" means next(error)
ocrRouterError(error) ==
  IF error = "LIMIT_FILE_SIZE"
    THEN Response(400, "File size too large. Maximum size is 5MB.", 0)
  ELSE IF error \in {"Only JPEG, PNG, JPG, and WebP images are allowed",
                     "Only image files are allowed"}
    THEN Response(400, "Only JPEG, PNG, JPG, and WebP images are allowed for OCR processing.", 0)
  ELSE Response(0, "next", 0)

\* multer, then on an error the error middleware; "next" means the
\* controller runs
ocrUpload(req) ==
  IF ocrMulter(req) = "next" THEN Response(0, "next", 0)
  ELSE ocrRouterError(ocrMulter(req))

\* ---- controllers/speechController.js
evaluatePronunciationCatch(err, calls) ==
  IF err = "audio too short"
  THEN Response(400, "Audio recording is too short. Minimum duration: 1 second", calls)
  ELSE IF err = "audio too long"
  THEN Response(400, "Audio recording is too long. Maximum duration: 5 minutes", calls)
  ELSE IF err = "no speech detected"
  THEN Response(400, "No clear speech detected in the audio recording", calls)
  ELSE IF err = "quota exceeded"
  THEN Response(429, "Speech evaluation quota exceeded. Please try again later.", calls)
  ELSE Caught("Internal server error during pronunciation evaluation", calls)

\* a plausible slip: the audio format is tested before the language
evaluatePronunciation_formatFirst(req, outcome) ==
  LET language == Default(req.language, "en")
      evaluationType == Default(req.evaluationType, "pronunciation")
  IN IF req.validationErrors THEN BadRequest(ValidationFailedMsg)
     ELSE IF ~req.file.present THEN Response(400, "No audio file uploaded", 0)
     ELSE IF req.file.mimetype \notin AudioAllowList
       THEN Response(400, "Invalid audio format. Supported formats: WAV, MP3, M4A, WebM, OGG", 0)
     ELSE IF language \notin ShortCodes THEN BadRequest(UnsupportedLanguageMsg)
     ELSE IF req.file.size > AudioSizeCap
       THEN Response(400, "Audio file too large. Maximum size: 10MB", 0)
     ELSE IF evaluationType \notin EvaluationTypes
       THEN Response(400, "Invalid evaluation type. Supported types: pronunciation, fluency, accuracy, completeness, comprehensive", 0)
     ELSE IF outcome = "ok"
       THEN Response(200, "Pronunciation evaluation completed successfully", 1)
     ELSE evaluatePronunciationCatch(outcome, 1)

evaluatePronunciation(req, outcome) ==
  LET language == Default(req.language, "en")
      evaluationType == Default(req.evaluationType, "pronunciation")
  IN IF req.validationErrors THEN BadRequest(ValidationFailedMsg)
     ELSE IF ~req.file.present THEN Response(400, "No audio file uploaded", 0)
     ELSE IF language \notin ShortCodes THEN BadRequest(UnsupportedLanguageMsg)
     ELSE IF req.file.mimetype \notin AudioAllowList
       THEN Response(400, "Invalid audio format. Supported formats: WAV, MP3, M4A, WebM, OGG", 0)
     ELSE IF req.file.size > AudioSizeCap
       THEN Response(400, "Audio file too large. Maximum size: 10MB", 0)
     ELSE IF evaluationType \notin EvaluationTypes
       THEN Response(400, "Invalid evaluation type. Supported types: pronunciation, fluency, accuracy, completeness, comprehensive", 0)
     ELSE IF outcome = "ok"
       THEN Response(200, "Pronunciation evaluation completed successfully", 1)
     ELSE evaluatePronunciationCatch(outcome, 1)

speechToText(req, outcome) ==
  IF req.validationErrors THEN BadRequest(ValidationFailedMsg)
  ELSE IF ~req.file.present THEN Response(400, "No audio file uploaded", 0)
  ELSE IF outcome = "ok"
    THEN Response(200, "Speech to text conversion completed successfully", 1)
  ELSE Caught("Failed to convert speech to text", 1)

\* the stubs: textToSpeech, exportData and the like
notImplemented(req) == Shaped(501, "Not Implemented", 0, -1, "stub")

\* ---- routes/speech.js: multer's fileFilter and size limit, and the router's
\* error middleware
speechMulter(req) ==
  IF ~req.file.present THEN "next"
  ELSE IF ~(req.file.mimetype[1] = "audio" \/ req.file.mimetype \in SpeechFilterList)
    THEN "Only audio files are allowed"
  ELSE IF req.file.size > AudioSizeCap THEN "LIMIT_FILE_SIZE"
  ELSE "next"

speechRouterError(error) ==
  IF error = "LIMIT_FILE_SIZE"
    THEN Response(400, "Audio file size too large. Maximum size is 10MB.", 0)
  ELSE IF error = "Only audio files are allowed"
    THEN Response(400, "Only audio files are allowed for speech processing.", 0)
  ELSE Response(0, "next", 0)

speechUpload(req) ==
  IF speechMulter(req) = "next" THEN Response(0, "next", 0)
  ELSE speechRouterError(speechMulter(req))

\* ---- the mounted routes: middleware, then controller.  app.js installs no
\* authentication middleware, so req.user is undefined in a mounted handler,
\* and no express-validator chain is attached, so validationResult is empty.

postGrammar(req, outcome) ==
  IF validateGrammarRequest(req).message = "next"
  THEN checkGrammar(grammarRouteBody(req), outcome)
  ELSE validateGrammarRequest(req)

postGrammarBatch(req, outcome) ==
  IF <<"POST", "/batch">> \in GrammarRoutes
  THEN batchGrammarCheck(req, outcome)
  ELSE apiNotFound(req)

postChat(req, outcome) ==
  IF validateChatRequest(req).message = "next"
  THEN chatSendMessage(chatRouteBody(req), outcome)
  ELSE validateChatRequest(req)

\* router.post('/session', chatController.createSession)
createSession(req) == notImplemented(req)
postChatSession(req) == createSession(req)

postOcr(req, outcome) ==
  IF ocrUpload(req).message = "next" THEN extractText(req, outcome) ELSE ocrUpload(req)

postOcrPreprocess(req, outcome) ==
  IF ocrUpload(req).message = "next" THEN extractTextWithPreprocessing(req, outcome)
  ELSE ocrUpload(req)

postSpeech(req, outcome) ==
  IF speechUpload(req).message = "next" THEN speechToText(req, outcome)
  ELSE speechUpload(req)

postSpeechAnalyze(req, outcome) ==
  IF speechUpload(req).message = "next" THEN evaluatePronunciation(req, outcome)
  ELSE speechUpload(req)

\* ---- request domains
GrammarReqs ==
  [validationErrors : BOOLEAN, text : Texts, language : LangInputs,
   checkType : CheckTypeInputs]
ChatReqs ==
  [validationErrors : BOOLEAN, hasUser : BOOLEAN, message : Texts,
   hasSessionId : BOOLEAN, language : LangInputs, messageType : MessageTypeInputs]
StartReqs ==
  [validationErrors : BOOLEAN, hasUser : BOOLEAN, language : LangInputs,
   sessionType : SessionTypeInputs]
ExportReqs ==
  [validationErrors : BOOLEAN, hasUser : BOOLEAN, text : Texts,
   language : {Absent, "en", "pa", "hindi", "xx"}]
OcrReqs ==
  [validationErrors : BOOLEAN, file : Files, language : {Absent, "hi", "english", "xx"}]
SpeechReqs ==
  [validationErrors : BOOLEAN, file : Files, language : {Absent, "hi", "xx"},
   evaluationType : EvaluationTypeInputs]

\* batch texts: not an array, or an array of n valid items in which the
\* first and the last item are replaced by items of any kind
BatchLens == {0, 1, 2, 20, 21}
ValidItem == TString(1, FALSE)
ItemKinds == {ValidItem, TString(2000, FALSE), TString(2001, FALSE),
              TString(1, TRUE), TString(0, TRUE), TMissing, TNonString}
BatchTexts ==
  {[isArray |-> FALSE, items |-> <<>>]} \cup
  {[isArray |-> TRUE,
    items |-> [i \in 1..n |-> IF i = 1 THEN first ELSE IF i = n THEN last ELSE ValidItem]] :
     n \in BatchLens, first \in ItemKinds, last \in ItemKinds}
BatchReqs ==
  [validationErrors : BOOLEAN, texts : BatchTexts, language : {Absent, "en", "xx"},
   checkType : {Absent, "bogus"}]

\* each exchange is independent of the others: a behaviour holds one
HttpIdle == [handler |-> "none"]
NoCall == [fn |-> "none"]

Idle == http = HttpIdle

\* process.env.NODE_ENV
NodeEnvs == {"development", "production"}

\* The body as serialised by res.json: which of the keys success, data,
\* error, statusCode and stack it has (JSON.stringify drops a key whose value
\* is undefined), and what the error key holds: "detail" is error.message,
\* "label" a fixed text.
Body(json, success, data, error, stack) ==
  [json |-> json, success |-> success, data |-> data, error |-> error,
   statusCode |-> FALSE, stack |-> stack]
jsonBody(shape, env) ==
  CASE shape = "success" -> Body(TRUE, "true", TRUE, "absent", FALSE)
    [] shape = "failure" -> Body(TRUE, "false", FALSE, "absent", FALSE)
    [] shape = "caught" ->
         Body(TRUE, "false", FALSE, IF env = "development" THEN "detail" ELSE "absent", FALSE)
    [] shape = "raw" -> Body(TRUE, "false", FALSE, "detail", FALSE)
    [] shape = "stub" -> Body(TRUE, "absent", FALSE, "absent", FALSE)
    [] shape = "notFound" -> Body(TRUE, "absent", FALSE, "label", FALSE)
    [] shape = "global" -> Body(TRUE, "absent", FALSE, "detail", env = "development")
    [] shape = "download" -> Body(FALSE, "absent", FALSE, "absent", FALSE)

\* adapter: what the adapter did in this exchange, if it was called
Exchange(handler, mounted, req, outcome, env, res) ==
  /\ http' = [handler |-> handler, mounted |-> mounted, req |-> req,
              adapter |-> IF res.adapterCalls = 0 THEN "not called" ELSE outcome,
              env |-> env, res |-> res, body |-> jsonBody(res.shape, env)]
  /\ UNCHANGED <<chatVars, call, proc>>

ExportOutcomes == {"ok", "quota exceeded", "invalid formatting", "font not supported", "other"}
LogOutcomes == {"ok", "other"}
\* the first of the two adapter calls of an export that fails, if any
FirstFailure(outcome, logOutcome) == IF outcome # "ok" THEN outcome ELSE logOutcome

\* ---- a controller called with a request object
CheckGrammar == Idle /\ \E req \in GrammarReqs, outcome \in AdapterOutcomes, env \in NodeEnvs :
  Exchange("checkGrammar", FALSE, req, outcome, env, checkGrammar(req, outcome))
BatchGrammarCheck == Idle /\ \E req \in BatchReqs, outcome \in AdapterOutcomes, env \in NodeEnvs :
  Exchange("batchGrammarCheck", FALSE, req, outcome, env, batchGrammarCheck(req, outcome))
ChatSendMessage == Idle /\ \E req \in ChatReqs, outcome \in AdapterOutcomes, env \in NodeEnvs :
  Exchange("sendMessage", FALSE, req, outcome, env, chatSendMessage(req, outcome))
StartChatSession == Idle /\ \E req \in StartReqs, outcome \in AdapterOutcomes, env \in NodeEnvs :
  Exchange("startChatSession", FALSE, req, outcome, env, startChatSession(req, outcome))
ExportToDocx ==
  Idle /\ \E req \in ExportReqs, outcome \in ExportOutcomes, logOutcome \in LogOutcomes,
              env \in NodeEnvs :
    Exchange("exportToDocx", FALSE, req, FirstFailure(outcome, logOutcome), env,
             exportToDocx(req, outcome, logOutcome))
ExportToPdf ==
  Idle /\ \E req \in ExportReqs, outcome \in ExportOutcomes, logOutcome \in LogOutcomes,
              env \in NodeEnvs :
    Exchange("exportToPdf", FALSE, req, FirstFailure(outcome, logOutcome), env,
             exportToPdf(req, outcome, logOutcome))
ExportToText ==
  Idle /\ \E req \in ExportReqs, outcome \in ExportOutcomes, logOutcome \in LogOutcomes,
              env \in NodeEnvs :
    Exchange("exportToText", FALSE, req, FirstFailure(outcome, logOutcome), env,
             exportToText(req, outcome, logOutcome))
ExtractText == Idle /\ \E req \in OcrReqs, outcome \in AdapterOutcomes, env \in NodeEnvs :
  Exchange("extractText", FALSE, req, outcome, env, extractText(req, outcome))
ExtractTextWithPreprocessing ==
  Idle /\ \E req \in OcrReqs, outcome \in AdapterOutcomes, env \in NodeEnvs :
    /\ ~req.validationErrors
    /\ Exchange("extractTextWithPreprocessing", FALSE, req, outcome, env,
                extractTextWithPreprocessing(req, outcome))
ExportData == Idle /\ \E req \in ExportReqs, env \in NodeEnvs :
  Exchange("exportData", FALSE, req, "ok", env, notImplemented(req))
SpeechToText == Idle /\ \E req \in SpeechReqs, outcome \in AdapterOutcomes, env \in NodeEnvs :
  Exchange("speechToText", FALSE, req, outcome, env, speechToText(req, outcome))
EvaluatePronunciation == Idle /\ \E req \in SpeechReqs, outcome \in AdapterOutcomes, env \in NodeEnvs :
  Exchange("evaluatePronunciation", FALSE, req, outcome, env, evaluatePronunciation(req, outcome))

\* ---- a request sent to the application
PostGrammar == Idle /\ \E req \in GrammarReqs, outcome \in AdapterOutcomes, env \in NodeEnvs :
  /\ ~req.validationErrors
  /\ Exchange("checkGrammar", TRUE, req, outcome, env, postGrammar(req, outcome))
PostGrammarBatch == Idle /\ \E req \in BatchReqs, outcome \in AdapterOutcomes, env \in NodeEnvs :
  /\ ~req.validationErrors
  /\ Exchange("batchGrammarCheck", TRUE, req, outcome, env, postGrammarBatch(req, outcome))
PostChat == Idle /\ \E req \in ChatReqs, outcome \in AdapterOutcomes, env \in NodeEnvs :
  /\ ~req.validationErrors /\ ~req.hasUser
  /\ Exchange("sendMessage", TRUE, req, outcome, env, postChat(req, outcome))
PostChatSession == Idle /\ \E req \in StartReqs, env \in NodeEnvs :
  /\ ~req.validationErrors /\ ~req.hasUser
  /\ Exchange("createSession", TRUE, req, "ok", env, postChatSession(req))
PostOcr == Idle /\ \E req \in OcrReqs, outcome \in AdapterOutcomes, env \in NodeEnvs :
  /\ ~req.validationErrors
  /\ Exchange("extractText", TRUE, req, outcome, env, postOcr(req, outcome))
PostOcrPreprocess == Idle /\ \E req \in OcrReqs, outcome \in AdapterOutcomes, env \in NodeEnvs :
  /\ ~req.validationErrors
  /\ Exchange("extractTextWithPreprocessing", TRUE, req, outcome, env,
              postOcrPreprocess(req, outcome))
PostSpeech == Idle /\ \E req \in SpeechReqs, outcome \in AdapterOutcomes, env \in NodeEnvs :
  /\ ~req.validationErrors
  /\ Exchange("speechToText", TRUE, req, outcome, env, postSpeech(req, outcome))
PostSpeechAnalyze == Idle /\ \E req \in SpeechReqs, outcome \in AdapterOutcomes, env \in NodeEnvs :
  /\ ~req.validationErrors
  /\ Exchange("evaluatePronunciation", TRUE, req, outcome, env, postSpeechAnalyze(req, outcome))


\* the server process before startServer() is called
NotStarted ==
  [pc |-> "init", env |-> "unset", uri |-> FALSE, conn |-> "idle", attempts |-> 0,
   sigintDb |-> FALSE, server |-> "off", signal |-> "none", closers |-> {},
   dbClose |-> "none", exited |-> FALSE, code |-> 0]

Init == ChatInit /\ http = HttpIdle /\ call = NoCall /\ proc = NotStarted

Next ==
  \/ SendMessage
  \/ SendMessageNewSession
  \/ SendMessageBlank
  \/ SendEducationalQuery
  \/ DetectIntentResolves
  \/ DetectIntentRejects
  \/ GetConversationHistory
  \/ ClearConversation
  \/ ClearConversationFails
  \/ SetEducationalPreferences

Spec == Init /\ [][Next]_vars

\* Sequential use of one ChatService: a sendMessage call is made only when
\* no other call is in flight, and every upstream call succeeds.
SendMessageSequential ==
  \E s \in Sessions : Accept("sendMessage", s, NoSubject, 2 * MaxSeqArrivals, 1)

NextTrim ==
  \/ SendMessageSequential
  \/ DetectIntentResolves

SpecTrim == Init /\ [][NextTrim]_vars

NextHttp ==
  \/ CheckGrammar
  \/ BatchGrammarCheck
  \/ ChatSendMessage
  \/ StartChatSession
  \/ ExportToDocx
  \/ ExportToPdf
  \/ ExportToText
  \/ ExtractText
  \/ ExtractTextWithPreprocessing
  \/ ExportData
  \/ SpeechToText
  \/ EvaluatePronunciation
  \/ PostGrammar
  \/ PostGrammarBatch
  \/ PostChat
  \/ PostChatSession
  \/ PostOcr
  \/ PostOcrPreprocess
  \/ PostSpeech
  \/ PostSpeechAnalyze

SpecHttp == Init /\ [][NextHttp]_vars

\* ------------------------------------------------- a request in flight
\* The same handlers, run as Express runs them: the layers of a route one
\* after the other, and a controller in two runs, up to its await and from
\* the moment the adapter's promise settles.  sent counts the calls of
\* res.json and res.send.
NoResponse == Shaped(0, "none", 0, -1, "none")
Flight(handler, mounted, phase, req, error, res, sent) ==
  [handler |-> handler, mounted |-> mounted, phase |-> phase, req |-> req,
   error |-> error, res |-> res, sent |-> sent]
InPhase(phase) == ~Idle /\ http.phase = phase

UploadRoutes == {"extractText", "extractTextWithPreprocessing", "speechToText",
                 "evaluatePronunciation"}
ValidatedRoutes == {"checkGrammar", "sendMessage"}
\* the handlers a router registers, and batchGrammarCheck, which none does
MountedHandlers == UploadRoutes \cup ValidatedRoutes \cup {"batchGrammarCheck"}
DirectHandlers == {"checkGrammar", "batchGrammarCheck", "sendMessage", "startChatSession",
                   "exportToDocx", "exportToPdf", "exportToText", "exportData"}

RequestsOf(handler) ==
  CASE handler = "checkGrammar" -> GrammarReqs
    [] handler = "batchGrammarCheck" -> BatchReqs
    [] handler = "sendMessage" -> ChatReqs
    [] handler = "startChatSession" -> StartReqs
    [] handler \in {"exportToDocx", "exportToPdf", "exportToText", "exportData"} -> ExportReqs
    [] handler \in {"extractText", "extractTextWithPreprocessing"} -> OcrReqs
    [] handler \in {"speechToText", "evaluatePronunciation"} -> SpeechReqs

\* the controller's response when its adapter calls end as given
Controller(handler, req, outcome, logOutcome) ==
  CASE handler = "checkGrammar" -> checkGrammar(req, outcome)
    [] handler = "batchGrammarCheck" -> batchGrammarCheck(req, outcome)
    [] handler = "sendMessage" -> chatSendMessage(req, outcome)
    [] handler = "startChatSession" -> startChatSession(req, outcome)
    [] handler = "exportToDocx" -> exportToDocx(req, outcome, logOutcome)
    [] handler = "exportToPdf" -> exportToPdf(req, outcome, logOutcome)
    [] handler = "exportToText" -> exportToText(req, outcome, logOutcome)
    [] handler = "exportData" -> notImplemented(req)
    [] handler = "extractText" -> extractText(req, outcome)
    [] handler = "extractTextWithPreprocessing" -> extractTextWithPreprocessing(req, outcome)
    [] handler = "speechToText" -> speechToText(req, outcome)
    [] handler = "evaluatePronunciation" -> evaluatePronunciation(req, outcome)

\* what a layer did: it sent a response, it called next, or it returned
\* having done neither
Did(r) == IF r.message = "next" THEN "next" ELSE IF r.status > 0 THEN "sent" ELSE "returned"

Send(res) == http' = [http EXCEPT !.phase = "done", !.res = res, !.sent = @ + 1]
Pass(phase) == http' = [http EXCEPT !.phase = phase]
Fail(error) == http' = [http EXCEPT !.phase = "globalError", !.error = error]
Return == http' = [http EXCEPT !.phase = "done"]
Layer(r, nextPhase) ==
  CASE Did(r) = "sent" /\ r.shape = "global" -> Fail(r.message)
    [] Did(r) = "sent" /\ r.shape # "global" -> Send(r)
    [] Did(r) = "next" -> Pass(nextPhase)
    [] OTHER -> Return

Arrive ==
  /\ Idle
  /\ \E mounted \in BOOLEAN :
       \E handler \in (IF mounted THEN MountedHandlers ELSE DirectHandlers) :
         \E req \in RequestsOf(handler) :
           /\ mounted => ~req.validationErrors
           /\ (mounted /\ handler = "sendMessage") => ~req.hasUser
           /\ http' = Flight(handler, mounted, IF mounted THEN "middleware" ELSE "controller",
                             req, "none", NoResponse, 0)
  /\ UNCHANGED <<chatVars, call, proc>>

\* upload.single(field): the file filter and the size limit, or a file sent
\* under another field name
Upload ==
  /\ InPhase("middleware") /\ http.handler \in UploadRoutes
  /\ \E otherField \in BOOLEAN :
       LET error == IF otherField /\ http.req.file.present THEN "LIMIT_UNEXPECTED_FILE"
                    ELSE IF http.handler \in {"extractText", "extractTextWithPreprocessing"}
                      THEN ocrMulter(http.req)
                    ELSE speechMulter(http.req)
       IN IF error = "next" THEN Pass("controller")
          ELSE http' = [http EXCEPT !.phase = "routerError", !.error = error]
  /\ UNCHANGED <<chatVars, call, proc>>

RouterError ==
  /\ InPhase("routerError")
  /\ Layer(IF http.handler \in {"extractText", "extractTextWithPreprocessing"}
             THEN ocrRouterError(http.error) ELSE speechRouterError(http.error),
           "globalError")
  /\ UNCHANGED <<chatVars, call, proc>>

Validate ==
  /\ InPhase("middleware") /\ http.handler \in ValidatedRoutes
  /\ IF http.handler = "checkGrammar"
       THEN IF Did(validateGrammarRequest(http.req)) = "next"
            THEN http' = [http EXCEPT !.phase = "controller", !.req = grammarRouteBody(@)]
            ELSE Layer(validateGrammarRequest(http.req), "controller")
       ELSE IF Did(validateChatRequest(http.req)) = "next"
            THEN http' = [http EXCEPT !.phase = "controller", !.req = chatRouteBody(@)]
            ELSE Layer(validateChatRequest(http.req), "controller")
  /\ UNCHANGED <<chatVars, call, proc>>

\* app.use('/api/*'): no router has a route for the request
NoRoute ==
  /\ InPhase("middleware") /\ http.handler \notin UploadRoutes \cup ValidatedRoutes
  /\ Send(apiNotFound(http.req))
  /\ UNCHANGED <<chatVars, call, proc>>

GlobalError ==
  /\ InPhase("globalError")
  /\ Send(globalErrorHandler(http.error))
  /\ UNCHANGED <<chatVars, call, proc>>

\* the controller up to its first await, or to the response it sends before
RunController ==
  /\ InPhase("controller")
  /\ IF Controller(http.handler, http.req, "ok", "ok").adapterCalls = 0
       THEN Layer(Controller(http.handler, http.req, "ok", "ok"), "controller")
       ELSE Pass("awaiting")
  /\ UNCHANGED <<chatVars, call, proc>>

AdapterSettles ==
  /\ InPhase("awaiting")
  /\ \E outcome \in AdapterOutcomes, logOutcome \in LogOutcomes :
       Layer(Controller(http.handler, http.req, outcome, logOutcome), "awaiting")
  /\ UNCHANGED <<chatVars, call, proc>>

NextServe ==
  \/ Arrive
  \/ Upload
  \/ RouterError
  \/ Validate
  \/ NoRoute
  \/ GlobalError
  \/ RunController
  \/ AdapterSettles

\* Express calls each layer as soon as the one before calls next, and the
\* rest of a controller runs when the promise it awaits settles; an adapter
\* call is taken to settle.
ServeFairness ==
  /\ WF_vars(Upload) /\ WF_vars(RouterError) /\ WF_vars(Validate) /\ WF_vars(NoRoute)
  /\ WF_vars(GlobalError) /\ WF_vars(RunController) /\ WF_vars(AdapterSettles)

SpecServe == Init /\ [][NextServe]_vars /\ ServeFairness

\* ------------------------------------------- results made from payloads
\* A JavaScript value held by a numeric field of an upstream payload: a
\* number num/den (den > 0), NaN, undefined (the field is missing) or null.
Num(n, d) == [kind |-> "number", num |-> n, den |-> d]
NaN == [kind |-> "NaN", num |-> 0, den |-> 1]
JsUndefined == [kind |-> "undefined", num |-> 0, den |-> 1]
JsNull == [kind |-> "null", num |-> 0, den |-> 1]

Max(a, b) == IF a >= b THEN a ELSE b
Abs(a) == IF a >= 0 THEN a ELSE -a
\* the global isNaN: its argument goes through Number() first
isNaN(x) == x.kind \in {"NaN", "undefined"}
\* a / b for integers a >= 0, b >= 0 that are not both 0 unless a is
Divide(a, b) == IF b = 0 THEN NaN ELSE Num(a, b)
Minus(x, y) ==
  IF x.kind # "number" \/ y.kind # "number" THEN NaN
  ELSE Num(x.num * y.den - y.num * x.den, x.den * y.den)
Times(x, y) ==
  IF x.kind # "number" \/ y.kind # "number" THEN NaN
  ELSE Num(x.num * y.num, x.den * y.den)
\* x > y, false when either is NaN or undefined
Greater(x, y) == x.kind = "number" /\ y.kind = "number" /\ x.num * y.den > y.num * x.den
MathMin(x, y) ==
  IF x.kind # "number" \/ y.kind # "number" THEN NaN
  ELSE IF Greater(x, y) THEN y ELSE x
MathMax(x, y) ==
  IF x.kind # "number" \/ y.kind # "number" THEN NaN
  ELSE IF Greater(y, x) THEN y ELSE x
\* parseFloat(x.toFixed(2)) for a number in thousandths: the nearest
\* hundredth, the one larger in magnitude of two equally near
toFixed2(x) ==
  Num((IF x.num >= 0 THEN 1 ELSE -1) * (((Abs(x.num) + 5) \div 10) * 10), x.den)

ConfidenceNumerators == {-5000, -500, 0, 700, 701, 1000, 1004, 1500, 87654, 99995,
                         100000, 100004, 150000}
UpstreamConfidences ==
  {NaN, JsUndefined, JsNull} \cup {Num(n, 1000) : n \in ConfidenceNumerators}

\* ---- services/ocrServices.js: the confidence of the result, from
\* result.data.confidence; null.toFixed throws, and the catch block throws on
extractTextFromImage(confidence) ==
  IF isNaN(confidence) THEN [threw |-> FALSE, confidence |-> JsNull]
  ELSE IF confidence.kind = "null" THEN [threw |-> TRUE, confidence |-> JsUndefined]
  ELSE [threw |-> FALSE, confidence |-> toFixed2(confidence)]

\* ---- services/chatService.js.  A reply text: the dialog engine's
\* fulfillmentText of a given length, as it is or inside the presentation
\* template under a heading.
ReplyLengths == {0, 100, 101}
Reply(n) == [length |-> n, wrapped |-> FALSE, heading |-> ""]
\* options.subject: missing, the empty string, or a name
SubjectInputs == {NoSubject, "", "math"}
ToUpperCase(subject) == IF subject = "math" THEN "MATH" ELSE subject
Truthy(subject) == subject \notin {NoSubject, ""}
WrapThreshold == 100

\* a plausible slip: a reply of exactly 100 characters is wrapped too
enhanceEducationalResponse_ge(text, subject) ==
  IF Truthy(subject) /\ text.length >= WrapThreshold
  THEN [length |-> text.length, wrapped |-> TRUE, heading |-> ToUpperCase(subject)]
  ELSE text

enhanceEducationalResponse(text, subject) ==
  IF Truthy(subject) /\ text.length > WrapThreshold
  THEN [length |-> text.length, wrapped |-> TRUE, heading |-> ToUpperCase(subject)]
  ELSE text

\* the result, from queryResult.fulfillmentText and
\* queryResult.intentDetectionConfidence
processEducationalResponse(confidence, context, subject, fulfillmentText) ==
  LET enhanced == context = "educational" /\ Greater(confidence, Num(7, 10))
  IN [threw |-> FALSE, confidence |-> confidence, enhanced |-> enhanced,
      text |-> IF enhanced THEN enhanceEducationalResponse(fulfillmentText, subject)
               ELSE fulfillmentText,
      originalText |-> fulfillmentText]

\* ---- services/grammarService.js.  A text is the sequence of its words,
\* as split(/\s+/) gives them; the empty text is one empty word.
MaxWords == 2
Words == {"a", "A", "b", "bb"}
WordLen(w) == IF w = "" THEN 0 ELSE IF w = "bb" THEN 2 ELSE 1
RECURSIVE SumLen(_)
SumLen(words) == IF words = <<>> THEN 0 ELSE WordLen(Head(words)) + SumLen(Tail(words))
\* text.length, the words being one blank apart
TextLength(words) == SumLen(words) + Len(words) - 1
EmptyText == <<"">>
NonBlankTexts == UNION {[1..n -> Words] : n \in 1..MaxWords}

calculateSimilarity(text1, text2) ==
  LET words1 == [i \in DOMAIN text1 |-> ToLowerCase(text1[i])]
      words2 == [i \in DOMAIN text2 |-> ToLowerCase(text2[i])]
      intersection == {i \in DOMAIN words1 : \E j \in DOMAIN words2 : words2[j] = words1[i]}
  IN Divide(Cardinality(intersection), Max(Len(words1), Len(words2)))

calculateConfidence(original, corrected) ==
  LET similarity == calculateSimilarity(original, corrected)
      lengthDifference == Divide(Abs(TextLength(original) - TextLength(corrected)),
                                 Max(TextLength(original), TextLength(corrected)))
  IN MathMax(Num(0, 1),
             MathMin(Num(1, 1), Minus(similarity, Times(lengthDifference, Num(1, 2)))))

\* controllers/grammarController.js: result.overallScore || result.confidence || 0
overallScore(confidence) ==
  IF confidence.kind = "number" /\ confidence.num # 0 THEN confidence ELSE Num(0, 1)

\* the result of correctGrammar for a text that passed its test for blank
\* input, given the corrected text parsed from the upstream response
correctGrammarResult(original, corrected) ==
  [threw |-> FALSE, confidence |-> calculateConfidence(original, corrected),
   overallScore |-> overallScore(calculateConfidence(original, corrected))]

\* the upstream response as its lines; the section headers are lines of
\* their own
MaxLines == 4
Headers == {"CORRECTED:", "CHANGES:", "SUGGESTIONS:"}
Lines == Headers \cup {"l1", "l2"}
ResponseTexts == UNION {[1..n -> Lines] : n \in 0..MaxLines}
\* the index of the first line at or after from that is in set, or 0
RECURSIVE IndexFrom(_, _, _)
IndexFrom(text, set, from) ==
  IF from > Len(text) THEN 0
  ELSE IF text[from] \in set THEN from
  ELSE IndexFrom(text, set, from + 1)
\* what the group of /header\s*(.*?)(?=stop|$)/s captures, trimmed and split
\* into lines, without the blank ones; stop = {} for /header\s*(.*)/s
Section(text, header, stop) ==
  LET start == IndexFrom(text, {header}, 1)
      end == IndexFrom(text, stop, start + 1)
  IN IF end = 0 THEN SubSeq(text, start + 1, Len(text))
     ELSE SubSeq(text, start + 1, end - 1)
Matches(text, header) == IndexFrom(text, {header}, 1) # 0

parseGrammarResponse(response) ==
  [corrected |-> IF Matches(response, "CORRECTED:")
                 THEN Section(response, "CORRECTED:", {"CHANGES:"}) ELSE response,
   changes |-> IF Matches(response, "CHANGES:")
               THEN Section(response, "CHANGES:", {"SUGGESTIONS:"}) ELSE <<>>,
   suggestions |-> IF Matches(response, "SUGGESTIONS:")
                   THEN Section(response, "SUGGESTIONS:", {}) ELSE <<>>]

\* ---- language detection by script.  A text is the sequence of its UTF-16
\* code units.
MaxChars == 3
DevanagariFirst == 2304     \* \u0900
DevanagariLast == 2431      \* \u097F
GurmukhiFirst == 2560       \* \u0A00
GurmukhiLast == 2687        \* \u0A7F
CodeUnits == {65, 2303, 2304, 2431, 2432, 2559, 2560, 2687, 2688}
ScriptTexts == UNION {[1..n -> CodeUnits] : n \in 0..MaxChars}
\* /[first-last]/.test(text)
TestRange(text, first, last) == \E i \in DOMAIN text : text[i] >= first /\ text[i] <= last

\* a plausible slip: the Gurmukhi test comes first
detectPrimaryLanguage_punjabiFirst(text) ==
  IF TestRange(text, GurmukhiFirst, GurmukhiLast) THEN "punjabi"
  ELSE IF TestRange(text, DevanagariFirst, DevanagariLast) THEN "hindi"
  ELSE "english"

\* services/ocrServices.js
detectPrimaryLanguage(text) ==
  IF TestRange(text, DevanagariFirst, DevanagariLast) THEN "hindi"
  ELSE IF TestRange(text, GurmukhiFirst, GurmukhiLast) THEN "punjabi"
  ELSE "english"

\* services/speechService.js
detectLanguageFromTranscript(transcript) ==
  IF TestRange(transcript, DevanagariFirst, DevanagariLast) THEN "hindi"
  ELSE IF TestRange(transcript, GurmukhiFirst, GurmukhiLast) THEN "punjabi"
  ELSE "english"

\* ---- app.js: the language detection middleware.  req.query.lang is
\* missing, a string or (a repeated parameter) an array; the Accept-Language
\* header is missing or the sequence of its comma-separated entries, each a
\* language tag, padded with blanks or not, with or without ;q= parameters.
\* The empty sequence is the empty header.
MaxEntries == 3
QueryLangs == {Absent, "", "hi", "pa", "en", "HI", "xx", "array"}
Tags == {"hi", "pa", "en", "fr", "hi-IN"}
Entries == [tag : Tags, params : BOOLEAN]
NoHeader == <<[tag |-> Absent, params |-> FALSE]>>
Headers_ == {NoHeader} \cup UNION {[1..n -> Entries] : n \in 0..MaxEntries}
supportedLanguages == {"hi", "pa", "en"}
\* lang.split(';')[0].trim()
TagOf(entry) == entry.tag

\* a plausible slip: the header is consulted before the query parameter
languageDetection_headerFirst(queryLang, acceptLanguage) ==
  LET browserLangs == [i \in DOMAIN acceptLanguage |-> TagOf(acceptLanguage[i])]
      found == IndexFrom(browserLangs, supportedLanguages, 1)
  IN IF acceptLanguage # NoHeader /\ acceptLanguage # <<>> /\ found # 0
     THEN browserLangs[found]
     ELSE IF queryLang \in supportedLanguages THEN queryLang
     ELSE "en"

\* req.userLanguage as the middleware sets it
languageDetection(queryLang, acceptLanguage) ==
  LET browserLangs == [i \in DOMAIN acceptLanguage |-> TagOf(acceptLanguage[i])]
      found == IndexFrom(browserLangs, supportedLanguages, 1)
  IN IF queryLang \notin {Absent, ""} /\ queryLang \in supportedLanguages THEN queryLang
     ELSE IF acceptLanguage # NoHeader /\ acceptLanguage # <<>>
       THEN (IF found # 0 THEN browserLangs[found] ELSE "en")
     ELSE "en"

OptionContexts == {"educational", "general", NoSubject}

NoCalls == call = NoCall
Apply(fn, input, result) ==
  /\ call' = [fn |-> fn, input |-> input, result |-> result]
  /\ UNCHANGED <<chatVars, http, proc>>

ExtractTextFromImage == NoCalls /\ \E confidence \in UpstreamConfidences :
  Apply("extractTextFromImage", confidence, extractTextFromImage(confidence))
ProcessEducationalResponse ==
  NoCalls /\ \E confidence \in UpstreamConfidences, context \in OptionContexts,
                subject \in SubjectInputs, n \in ReplyLengths :
    Apply("processEducationalResponse",
          [confidence |-> confidence, context |-> context, subject |-> subject,
           fulfillmentText |-> Reply(n)],
          processEducationalResponse(confidence, context, subject, Reply(n)))
CorrectGrammar ==
  NoCalls /\ \E original \in NonBlankTexts, corrected \in NonBlankTexts \cup {EmptyText} :
    Apply("correctGrammar", <<original, corrected>>, correctGrammarResult(original, corrected))
ParseGrammarResponse == NoCalls /\ \E response \in ResponseTexts :
  Apply("parseGrammarResponse", response, parseGrammarResponse(response))

DetectPrimaryLanguage == NoCalls /\ \E text \in ScriptTexts :
  Apply("detectPrimaryLanguage", text, detectPrimaryLanguage(text))
DetectLanguageFromTranscript == NoCalls /\ \E transcript \in ScriptTexts :
  Apply("detectLanguageFromTranscript", transcript, detectLanguageFromTranscript(transcript))

LanguageDetection == NoCalls /\ \E queryLang \in QueryLangs, acceptLanguage \in Headers_ :
  Apply("languageDetection", [queryLang |-> queryLang, acceptLanguage |-> acceptLanguage],
        languageDetection(queryLang, acceptLanguage))

NextResults ==
  \/ LanguageDetection
  \/ DetectPrimaryLanguage
  \/ DetectLanguageFromTranscript
  \/ ExtractTextFromImage
  \/ ProcessEducationalResponse
  \/ CorrectGrammar
  \/ ParseGrammarResponse

SpecResults == Init /\ [][NextResults]_vars

\* ------------------------------------------------- the server process
\* server.js: startServer, connectDB and the signal handlers.  pc is the
\* position of startServer; conn the state of connectDB ("waiting": the
\* retry timer is set); sigintDb: connectDB has installed its SIGINT
\* handler; closers: the handlers whose mongoose.connection.close() is
\* pending.
MaxAttempts == 2        \* retries of connectDB per run
Running == ~proc.exited /\ http = HttpIdle /\ call = NoCall
Step(next) == proc' = next /\ UNCHANGED <<chatVars, http, call>>
exit(p, code) == [p EXCEPT !.exited = TRUE, !.code = code]
\* the default action of a signal no handler is installed for
SignalCode(signal) == IF signal = "SIGINT" THEN 130 ELSE 143

\* startServer after await connectDB(): app.listen(PORT, ...) and the
\* registration of the shutdown handlers.  It runs as a microtask when
\* connectDB returns, before any timer or signal is handled.
listen(p) == [p EXCEPT !.server = "starting", !.pc = "done"]
resume(p) == IF p.pc = "awaitConnect" THEN listen(p) ELSE p

\* the catch block of connectDB
connectDBCatch(p) ==
  IF p.env = "production" THEN exit(p, 1)
  ELSE resume([p EXCEPT !.conn = "waiting"])

\* connectDB up to its await, or to its end when MONGO_URI is not set
connectDB(p) ==
  IF ~p.uri THEN connectDBCatch(p) ELSE [p EXCEPT !.conn = "connecting"]

StartServer ==
  /\ Running /\ proc.pc = "init"
  /\ \E env \in NodeEnvs, uri \in BOOLEAN :
       Step(connectDB([proc EXCEPT !.env = env, !.uri = uri, !.pc = "awaitConnect"]))

\* mongoose.connect resolved: connectDB installs its SIGINT handler and
\* returns
ConnectResolves ==
  /\ Running /\ proc.conn = "connecting"
  /\ Step(resume([proc EXCEPT !.conn = "connected", !.sigintDb = TRUE]))

ConnectRejects ==
  /\ Running /\ proc.conn = "connecting"
  /\ Step(connectDBCatch(proc))

RetryTimerFires ==
  /\ Running /\ proc.conn = "waiting" /\ proc.attempts < MaxAttempts
  /\ Step(connectDB([proc EXCEPT !.attempts = @ + 1]))

\* the listen callback
Listening ==
  /\ Running /\ proc.server = "starting"
  /\ Step([proc EXCEPT !.server = "listening"])

\* server.on('error')
ServerError ==
  /\ Running /\ proc.server = "starting"
  /\ Step(exit(proc, 1))

\* the handlers installed for a signal, run one after the other: the
\* one of connectDB starts closing the database, gracefulShutdown starts
\* closing the server
signalHandlers(p, signal) ==
  LET db == signal = "SIGINT" /\ p.sigintDb
      graceful == p.pc = "done"
      q == [p EXCEPT !.signal = signal]
  IN IF ~db /\ ~graceful THEN exit(q, SignalCode(signal))
     ELSE [q EXCEPT !.closers = IF db THEN {"connectDB"} ELSE {},
                    !.dbClose = IF db THEN "closing" ELSE p.dbClose,
                    !.server = IF graceful THEN "closing" ELSE p.server]

\* one termination signal is delivered to the process
Signal ==
  /\ Running /\ proc.pc # "init" /\ proc.signal = "none"
  /\ \E signal \in {"SIGTERM", "SIGINT"} : Step(signalHandlers(proc, signal))

\* the callback of server.close
serverClosed(p, err) ==
  IF err THEN exit(p, 1)
  ELSE [p EXCEPT !.server = "closed", !.closers = @ \cup {"gracefulShutdown"},
                 !.dbClose = "closing"]

ServerClosed ==
  /\ Running /\ proc.server = "closing"
  /\ \E err \in BOOLEAN : Step(serverClosed(proc, err))

\* await mongoose.connection.close() of one of the handlers settles
DbCloseSettles ==
  /\ Running
  /\ \E closer \in proc.closers, ok \in BOOLEAN :
       Step(IF ok THEN exit([proc EXCEPT !.dbClose = "closed"], 0)
            ELSE exit([proc EXCEPT !.dbClose = "failed"], 1))

NextProcess ==
  \/ StartServer
  \/ ConnectResolves
  \/ ConnectRejects
  \/ RetryTimerFires
  \/ Listening
  \/ ServerError
  \/ Signal
  \/ ServerClosed
  \/ DbCloseSettles

SpecProcess == Init /\ [][NextProcess]_vars

\* ------------------------------------------------------------ properties
Messages(s) == IF MapHas(activeContexts, s) THEN activeContexts[s].messages ELSE <<>>
Handled(s) == arrived[s] - Cardinality(PendingOf(s))

\* C1: after n messages appended one after the other to a session, its
\* history holds min(n, 50) entries, which are the most recent min(n, 50)
\* messages in arrival order; no history ever holds more than 50 entries.
C1_HistoryIsLastFifty ==
  \A s \in Sessions :
    /\ Len(Messages(s)) = Min(Handled(s), MaxHistory)
    /\ Len(Messages(s)) <= MaxHistory
    /\ \A i \in 1..Len(Messages(s)) :
         Messages(s)[i].userMessage = Handled(s) - Len(Messages(s)) + i

\* C1 witness: a session that received more than 51 messages and kept the last 50
C1_Witness ==
  \E s \in Sessions :
    /\ Handled(s) > MaxHistory + 1
    /\ Len(Messages(s)) = MaxHistory
    /\ Messages(s)[1].userMessage = Handled(s) - MaxHistory + 1

\* C2: the entries of concurrent sendMessage calls on one session are appended
\* in the order in which the calls arrived, whatever the order in which their
\* upstream calls complete.
C2_AppendedInArrivalOrder ==
  \A s \in Sessions :
    \A i, j \in 1..Len(Messages(s)) :
      i < j => Messages(s)[i].userMessage < Messages(s)[j].userMessage

\* C3: no update is lost under concurrent sendMessage calls: the history of a
\* session is exactly the entries of the calls that succeeded since the last
\* clear, one per call, less what the 50-entry trimming removed.
C3_NoLostUpdate ==
  \A s \in Sessions :
    /\ Messages(s) = SliceLast(completions[s], MaxHistory)
    /\ ~MapHas(activeContexts, s) => completions[s] = <<>>

\* C3 witness: two calls on one session were in flight together, completed
\* against arrival order, and both entries are in the history
C3_Witness ==
  \E s \in Sessions :
    /\ Len(completions[s]) >= 2
    /\ completions[s][1].userMessage > completions[s][2].userMessage
    /\ Len(Messages(s)) = Len(completions[s])

\* C4: a context that is in the map stays in the map through every operation
\* but a successful clearConversation of that session.
C4_OnlyClearRemoves ==
  [][\A s \in Sessions :
       (MapHas(activeContexts, s) /\ ~MapHas(activeContexts', s))
         => lastOp' = [op |-> "clearConversation", sessionId |-> s, ok |-> TRUE]]_vars

\* C4 witness: a context with history survived a failed sendMessage on its session
C4_Witness ==
  \E s \in Sessions :
    /\ MapHas(activeContexts, s)
    /\ Len(Messages(s)) >= 1
    /\ lastOp = [op |-> "sendMessage", sessionId |-> s, ok |-> FALSE]

\* C5 as claimed: a session has a context only if a message of that session
\* was processed since the last clear, and has one once a message succeeded.
C5_CreatedOnFirstMessage ==
  \A s \in Sessions :
    /\ MapHas(activeContexts, s) => Len(completions[s]) >= 1
    /\ Len(completions[s]) >= 1 => MapHas(activeContexts, s)

\* C5 amended: a session has a context only if, since the last clear, a
\* message of that session was processed or its preferences were set, and
\* has one once a message succeeded.
C5_CreatedOnFirstMessageOrPreferences ==
  \A s \in Sessions :
    /\ MapHas(activeContexts, s) => (Len(completions[s]) >= 1 \/ prefsSet[s])
    /\ Len(completions[s]) >= 1 => MapHas(activeContexts, s)

\* C5 witness: a context created by setEducationalPreferences alone, and a
\* context created by a first message
C5_Witness ==
  /\ \E s \in Sessions :
       MapHas(activeContexts, s) /\ completions[s] = <<>> /\ prefsSet[s]
  /\ \E s \in Sessions :
       MapHas(activeContexts, s) /\ Len(completions[s]) = 1 /\ ~prefsSet[s]

\* the subjects of a sequence of entries, in order of first occurrence
RECURSIVE FirstOccurrences(_)
FirstOccurrences(entries) ==
  IF entries = <<>> THEN <<>>
  ELSE LET front == FirstOccurrences(SubSeq(entries, 1, Len(entries) - 1))
           subject == entries[Len(entries)].subject
       IN IF subject = NoSubject \/ Includes(front, subject) THEN front
          ELSE Append(front, subject)

Subjects_(s) == IF MapHas(activeContexts, s) THEN activeContexts[s].subjects ELSE <<>>

\* C6: the subjects of a session hold no duplicate: every subject that
\* occurred is there once, in order of first occurrence.
C6_SubjectsDeduplicated ==
  \A s \in Sessions :
    /\ Subjects_(s) = FirstOccurrences(completions[s])
    /\ \A i, j \in 1..Len(Subjects_(s)) : i # j => Subjects_(s)[i] # Subjects_(s)[j]

\* C6 witness: three messages with a subject, one subject twice
C6_Witness ==
  \E s \in Sessions :
    /\ Len(completions[s]) = 3
    /\ \A i \in 1..3 : completions[s][i].subject # NoSubject
    /\ completions[s][1].subject = completions[s][3].subject
    /\ Len(Subjects_(s)) = 2

LongString(t, cap) == t.kind = "string" /\ t.len > cap
Rejected == http.res.status = 400 /\ http.res.adapterCalls = 0

\* C7: a grammar check of a text longer than 5000 characters and a chat
\* message longer than 2000 characters are answered 400 without any call of
\* the upstream adapter.
C7_LongTextRejected ==
  /\ (http.handler = "checkGrammar" /\ LongString(http.req.text, 5000)) => Rejected
  /\ (http.handler = "sendMessage" /\ LongString(http.req.message, 2000)) => Rejected

\* C8: an export to docx, pdf or txt of a text longer than 100000 characters
\* is answered 400 before the export adapter is called (stated for the
\* requests that carry req.user, which the three handlers read).
C8_LongExportRejected ==
  (http.handler \in {"exportToDocx", "exportToPdf", "exportToText"}
     /\ http.req.hasUser
     /\ LongString(http.req.text, 100000)) => Rejected

BatchValid(texts) ==
  /\ texts.isArray
  /\ Len(texts.items) >= 1 /\ Len(texts.items) <= 20
  /\ \A i \in 1..Len(texts.items) :
       /\ texts.items[i].kind = "string"
       /\ ~texts.items[i].blank
       /\ texts.items[i].len <= 2000

\* C9: a batch grammar request reaches the adapter only if texts is an array
\* of 1 to 20 items that are non-empty after trimming and at most 2000
\* characters long; every other request is answered 400 without adapter call.
C9_BatchGate ==
  http.handler = "batchGrammarCheck" =>
    /\ http.res.adapterCalls > 0 => BatchValid(http.req.texts)
    /\ ~BatchValid(http.req.texts) => Rejected

\* C10: an upload to POST /ocr, POST /speech or POST /speech/analyze whose
\* mimetype is outside the allow-list of the feature is answered 400 without
\* any adapter call, whatever the content of the file.
C10_MimeOutsideAllowListRejected ==
  (http.handler # "none" /\ http.mounted) =>
    /\ (http.handler = "extractText" /\ http.req.file.present
          /\ http.req.file.mimetype \notin ImageAllowList) => Rejected
    /\ (http.handler \in {"speechToText", "evaluatePronunciation"}
          /\ http.req.file.present
          /\ http.req.file.mimetype \notin AudioAllowList) => Rejected

\* ---- C11
\* A language that is given and is neither a short code nor a full name of
\* a supported language, in whatever letter case.
Unsupported(l) == l # Absent /\ ToLowerCase(l) \notin ShortCodes \cup FullNames
LanguageHandlers == {"extractText", "speechToText", "evaluatePronunciation",
                     "checkGrammar", "batchGrammarCheck", "sendMessage",
                     "startChatSession", "exportToDocx", "exportToPdf", "exportToText"}
UserHandlers == {"sendMessage", "startChatSession", "exportToDocx", "exportToPdf",
                 "exportToText"}
\* the controller was called with req.user attached, where it reads one
Authenticated == http.handler \in UserHandlers => http.req.hasUser

\* every text field of the body is absent or a string
WellTyped ==
  CASE http.handler \in {"checkGrammar", "exportToDocx", "exportToPdf", "exportToText"}
         -> http.req.text.kind # "nonstring"
    [] http.handler = "sendMessage" -> http.req.message.kind # "nonstring"
    [] http.handler = "batchGrammarCheck"
         -> \A i \in 1..Len(http.req.texts.items) :
              http.req.texts.items[i].kind # "nonstring"
    [] OTHER -> TRUE

\* C11: every handler that accepts a language answers 400 without calling
\* its adapter when the language supplied with the request is outside the
\* supported set (the caller being authenticated where the handler reads
\* req.user, and the body's text fields being strings).
C11_UnsupportedLanguageRejected ==
  (/\ http.handler \in LanguageHandlers
   /\ ~http.mounted
   /\ Authenticated
   /\ WellTyped
   /\ Unsupported(http.req.language)) => Rejected

\* ---- C12, C13
\* a request to POST /grammar or POST /chat in which every field other than
\* language passes the validator and the controller
OtherwiseValid ==
  CASE http.handler = "checkGrammar"
         -> /\ http.req.text.kind = "string" /\ ~http.req.text.blank
            /\ http.req.text.len <= 5000
            /\ Default(http.req.checkType, "comprehensive") \in CheckTypes
    [] http.handler = "sendMessage"
         -> /\ http.req.message.kind = "string" /\ ~http.req.message.blank
            /\ http.req.message.len <= 2000
            /\ http.req.hasSessionId
            /\ Default(http.req.messageType, "text") \in MessageTypes
    [] OTHER -> FALSE
MountedTextRoute == http.handler \in {"checkGrammar", "sendMessage"} /\ http.mounted
LanguageMessages == {UnsupportedLanguageMsg, "Supported languages are: English, Hindi, Punjabi."}
AdapterReached == http.res.adapterCalls >= 1

\* C12: on POST /grammar and POST /chat as mounted, an otherwise valid
\* request is accepted, and its adapter called, when the language is given
\* as a short code and when it is given as the equivalent full name.
C12_ShortCodeAndFullNameAccepted ==
  (/\ MountedTextRoute
   /\ OtherwiseValid
   /\ ToLowerCase(http.req.language) \in ShortCodes \cup FullNames) => AdapterReached

\* C13: on POST /grammar and POST /chat as mounted, an otherwise valid
\* request without a language reaches the adapter and is not answered with
\* a message about the language.
C13_OmittedLanguageDefaultsToEnglish ==
  (/\ MountedTextRoute
   /\ OtherwiseValid
   /\ http.req.language = Absent)
  => (AdapterReached /\ http.res.message \notin LanguageMessages)

\* ---- C14
AdapterHandlers == {"extractText", "speechToText", "evaluatePronunciation",
                    "checkGrammar", "batchGrammarCheck", "sendMessage",
                    "exportToDocx", "exportToPdf", "exportToText"}

\* C14: in every handler that calls an upstream adapter, a call that fails
\* with the quota-exceeded signal is answered 429.
C14_QuotaExceededIs429 ==
  (/\ http.handler \in AdapterHandlers
   /\ http.adapter = "quota exceeded") => http.res.status = 429

\* ---- C15
\* The failure kinds documented for a feature, and the status documented for
\* each kind: quota exceeded 429, session expired 401, an input the upstream
\* service rejects 400.
FeatureKinds(handler) ==
  CASE handler = "extractText" -> {"quota exceeded", "invalid image"}
    [] handler \in {"speechToText", "evaluatePronunciation"}
         -> {"quota exceeded", "audio too short", "audio too long", "no speech detected"}
    [] handler \in {"checkGrammar", "batchGrammarCheck"}
         -> {"quota exceeded", "unsupported language"}
    [] handler = "sendMessage"
         -> {"quota exceeded", "session expired", "inappropriate content"}
    [] handler = "startChatSession" -> {"quota exceeded"}
    [] handler \in {"exportToDocx", "exportToPdf", "exportToText"}
         -> {"quota exceeded", "invalid formatting", "font not supported"}
    [] OTHER -> {}
KindStatus(kind) ==
  CASE kind = "quota exceeded" -> 429
    [] kind = "session expired" -> 401
    [] OTHER -> 400
AdapterFailed == http.adapter \notin {"not called", "ok"}

\* C15: in every handler a caught adapter failure is given a status: the
\* status of its kind when it is of a kind documented for the feature, and
\* 500 when it is of none.
C15_FailureMappingTotal ==
  (~Idle /\ AdapterFailed) =>
    http.res.status = (IF http.adapter \in FeatureKinds(http.handler)
                       THEN KindStatus(http.adapter) ELSE 500)

\* ---- C16
Responded == InPhase("done") /\ http.sent = 1

\* C16: every request, whether it fails validation, its adapter succeeds
\* or its adapter fails, is eventually answered, and no request is ever
\* answered more than once.
C16_ExactlyOneResponse ==
  /\ (~Idle) ~> Responded
  /\ [](~Idle => http.sent <= 1)
  /\ [](InPhase("done") => http.sent = 1)

\* a request whose upload error the router's middleware passes on has been
\* answered by the global error handler
C16_Witness ==
  /\ Responded
  /\ http.error = "LIMIT_UNEXPECTED_FILE"
  /\ http.res.shape = "global"

\* ---- C17
\* C17: every JSON body a handler sends has a success key, a data key
\* exactly when success is true, an error key exactly when it is false, and
\* a statusCode key (holding the status sent).
C17_EnvelopeShape ==
  (~Idle /\ http.body.json) =>
    /\ http.body.success \in {"true", "false"}
    /\ http.body.data <=> (http.body.success = "true")
    /\ (http.body.error # "absent") <=> (http.body.success = "false")
    /\ http.body.statusCode

\* ---- C18
\* C18: with NODE_ENV = production no error response carries error.message
\* or error.stack.
C18_NoDetailInProduction ==
  (~Idle /\ http.env = "production" /\ http.res.status >= 400) =>
    (http.body.error # "detail" /\ ~http.body.stack)

\* ---- C19
\* 0 <= x <= hi, for a number x
InBound(x, hi) == x.kind = "number" /\ 0 <= x.num /\ x.num <= hi * x.den
ConfidenceBound(fn) == IF fn = "extractTextFromImage" THEN 100 ELSE 1

\* C19: the confidence of every result made from an upstream payload is a
\* number within its bound, [0,100] for OCR and [0,1] for chat and grammar.
C19_ConfidenceWithinBound ==
  (/\ call.fn \in {"extractTextFromImage", "processEducationalResponse", "correctGrammar"}
   /\ ~call.result.threw)
  => InBound(call.result.confidence, ConfidenceBound(call.fn))

\* ---- C20
HasHeaderLine(field) == \E i \in DOMAIN field : field[i] \in Headers

\* C20: parseGrammarResponse gives an empty corrected, changes or
\* suggestions value when the response has no section of that name, and no
\* value holds unparsed response text: the whole response, or a section
\* header with what follows it.
C20_AbsentSectionsEmpty ==
  call.fn = "parseGrammarResponse" =>
    /\ ~Matches(call.input, "CORRECTED:") => call.result.corrected = <<>>
    /\ ~Matches(call.input, "CHANGES:") => call.result.changes = <<>>
    /\ ~Matches(call.input, "SUGGESTIONS:") => call.result.suggestions = <<>>
    /\ ~HasHeaderLine(call.result.corrected)
    /\ ~HasHeaderLine(call.result.changes)
    /\ ~HasHeaderLine(call.result.suggestions)

\* ---- C21
Devanagari == 2304..2431
Gurmukhi == 2560..2687
ByScript(text) ==
  IF \E i \in DOMAIN text : text[i] \in Devanagari THEN "hindi"
  ELSE IF \E i \in DOMAIN text : text[i] \in Gurmukhi THEN "punjabi"
  ELSE "english"

\* C21: for every text the OCR detector and the speech detector return the
\* same result: hindi if the text has a Devanagari character, else punjabi
\* if it has a Gurmukhi character, else english.
C21_DetectorsAgree ==
  /\ call.fn = "detectPrimaryLanguage" =>
        /\ call.result = ByScript(call.input)
        /\ call.result = detectLanguageFromTranscript(call.input)
  /\ call.fn = "detectLanguageFromTranscript" =>
        /\ call.result = ByScript(call.input)
        /\ call.result = detectPrimaryLanguage(call.input)

\* a text with characters of both scripts, the Gurmukhi one first
C21_Witness ==
  /\ call.fn = "detectPrimaryLanguage"
  /\ Len(call.input) = 3
  /\ call.input[1] = 2560 /\ call.input[2] = 65 /\ call.input[3] = 2431
  /\ call.result = "hindi"

\* ---- C22
SubjectSet(subject) == subject \notin {NoSubject, ""}
Wrapped(input) ==
  [length |-> input.fulfillmentText.length, wrapped |-> TRUE,
   heading |-> IF input.subject = "math" THEN "MATH" ELSE input.subject]
AboveSevenTenths(c) == c.kind = "number" /\ 10 * c.num > 7 * c.den

\* C22: the text of a chat result is the reply inside the presentation
\* template whenever a subject is set and the reply is longer than 100
\* characters, and the unmodified reply otherwise.
C22_WrappedWhenSubjectAndLong ==
  call.fn = "processEducationalResponse" =>
    call.result.text =
      IF SubjectSet(call.input.subject) /\ call.input.fulfillmentText.length > 100
      THEN Wrapped(call.input) ELSE call.input.fulfillmentText

\* C22 as amended: the reply is wrapped exactly when, besides, the request's
\* context is educational and the intent confidence is above 0.7.
C22_WrappedWhenEducationalConfidentSubjectAndLong ==
  call.fn = "processEducationalResponse" =>
    call.result.text =
      IF /\ call.input.context = "educational"
         /\ AboveSevenTenths(call.input.confidence)
         /\ SubjectSet(call.input.subject)
         /\ call.input.fulfillmentText.length > 100
      THEN Wrapped(call.input) ELSE call.input.fulfillmentText

C22_Witness ==
  /\ call.fn = "processEducationalResponse"
  /\ call.input.fulfillmentText.length = 101
  /\ call.input.confidence = Num(701, 1000)
  /\ call.result.text.wrapped /\ call.result.text.heading = "MATH"

\* ---- C23
\* C23: POST /chat/session with a language outside the supported set is
\* answered 400, unsupported language, and no session adapter call is made
\* for it.
C23_SessionWithUnsupportedLanguageIs400 ==
  (~Idle /\ http.mounted /\ http.handler \in {"createSession", "startChatSession"}
   /\ Unsupported(http.req.language))
  => /\ http.res.status = 400
     /\ http.res.message = UnsupportedLanguageMsg
     /\ http.res.adapterCalls = 0

\* ---- C24
\* a validation rule applied to a request: whether the request violates it,
\* and the message (and item index) of its 400 response
Rule(fails, message, index) == [fails |-> fails, message |-> message, index |-> index]
TextRequired(t) == t.kind = "missing" \/ t.len = 0 \/ t.blank
ItemRule(items, k) ==
  LET i == (k + 1) \div 2
  IN IF k % 2 = 1
     THEN Rule(TextRequired(items[i]), "Text at index is empty or invalid", i - 1)
     ELSE Rule(items[i].len > 2000,
               "Text at index exceeds maximum length of 2000 characters for batch processing",
               i - 1)
\* the rules of a handler in their order
Rules(handler, req) ==
  <<Rule(req.validationErrors, ValidationFailedMsg, -1)>> \o
  CASE handler = "evaluatePronunciation" ->
       <<Rule(~req.file.present, "No audio file uploaded", -1),
         Rule(req.language \notin ShortCodes \cup {Absent}, UnsupportedLanguageMsg, -1),
         Rule(req.file.mimetype \notin AudioAllowList,
              "Invalid audio format. Supported formats: WAV, MP3, M4A, WebM, OGG", -1),
         Rule(req.file.size > 10 * 1024 * 1024, "Audio file too large. Maximum size: 10MB", -1),
         Rule(req.evaluationType \notin EvaluationTypes \cup {Absent},
              "Invalid evaluation type. Supported types: pronunciation, fluency, accuracy, completeness, comprehensive", -1)>>
    [] handler = "speechToText" ->
       <<Rule(~req.file.present, "No audio file uploaded", -1)>>
    [] handler = "extractText" ->
       <<Rule(~req.file.present, "No image file uploaded", -1),
         Rule(req.language \notin ShortCodes \cup {Absent}, UnsupportedLanguageMsg, -1),
         Rule(req.file.mimetype \notin ImageAllowList,
              "Invalid file type. Supported formats: JPEG, JPG, PNG, WebP", -1)>>
    [] handler = "checkGrammar" ->
       <<Rule(TextRequired(req.text), "Text is required for grammar checking.", -1),
         Rule(req.text.len > 5000, "Text exceeds maximum length of 5000 characters.", -1),
         Rule(req.language \notin ShortCodes \cup {Absent, "EN"}, UnsupportedLanguageMsg, -1),
         Rule(req.checkType \notin CheckTypes \cup {Absent},
              "Invalid check type. Supported types: comprehensive, spelling, grammar, punctuation, style", -1)>>
    [] handler = "batchGrammarCheck" ->
       <<Rule(~req.texts.isArray \/ Len(req.texts.items) = 0,
              "Array of texts is required for batch processing", -1),
         Rule(Len(req.texts.items) > 20, "Maximum 20 texts allowed for batch processing", -1)>>
       \o [k \in 1..(2 * Len(req.texts.items)) |-> ItemRule(req.texts.items, k)]
    [] handler = "sendMessage" ->
       <<Rule(TextRequired(req.message), "Message is required", -1),
         Rule(req.message.len > 2000, "Message exceeds maximum length of 2000 characters", -1),
         Rule(~req.hasSessionId, "Session ID is required", -1),
         Rule(req.language \notin ShortCodes \cup {Absent}, UnsupportedLanguageMsg, -1),
         Rule(req.messageType \notin MessageTypes \cup {Absent},
              "Invalid message type. Supported types: text, grammar_question, pronunciation_help, exercise_request", -1)>>
    [] handler = "startChatSession" ->
       <<Rule(req.language \notin ShortCodes \cup {Absent}, UnsupportedLanguageMsg, -1),
         Rule(req.sessionType \notin SessionTypes \cup {Absent},
              "Invalid session type. Supported types: general, grammar_focused, pronunciation_focused, writing_help", -1)>>
    [] handler = "exportToDocx" ->
       <<Rule(TextRequired(req.text), "Text content is required for document export", -1),
         Rule(req.text.len > 100000,
              "Text content exceeds maximum length of 100,000 characters", -1),
         Rule(req.language \notin ShortCodes \cup {Absent}, UnsupportedLanguageMsg, -1)>>
    [] handler = "exportToPdf" ->
       <<Rule(TextRequired(req.text), "Text content is required for PDF export", -1)>>
    [] handler = "exportToText" ->
       <<Rule(TextRequired(req.text), "Text content is required for text export", -1)>>
RuleHandlers == {"evaluatePronunciation", "speechToText", "extractText", "checkGrammar",
                 "batchGrammarCheck", "sendMessage", "startChatSession", "exportToDocx",
                 "exportToPdf", "exportToText"}
Failing(rules) == {i \in DOMAIN rules : rules[i].fails}
Earliest(rules) == CHOOSE i \in Failing(rules) : \A j \in Failing(rules) : i <= j

UpstreamFails ==
  /\ Cardinality(pending') < Cardinality(pending)
  /\ lastOp'.op = "sendMessage" /\ ~lastOp'.ok

\* C25: when the upstream dialog call of a sendMessage fails, the context
\* map is left exactly as it was: no context is created and nothing is
\* appended.
C25_FailedSendLeavesMap ==
  [][UpstreamFails => activeContexts' = activeContexts]_vars

\* the only message of a session was refused upstream and the session has
\* no context
C25_Witness ==
  \E s \in Sessions :
    /\ arrived[s] = 1 /\ PendingOf(s) = {}
    /\ clears = 0 /\ prefCalls = 0
    /\ ~MapHas(activeContexts, s)

\* ---- C26
\* the stored context of a session, or a record that is no context
ContextOf(map, s) ==
  IF MapHas(map, s) THEN map[s]
  ELSE [sessionId |-> "absent", messages |-> <<>>, subjects |-> <<>>,
        preferences |-> NoPrefs]

\* C26: an operation addressed to a session leaves the context of every
\* other session as it was, and getConversationHistory changes no context.
C26_SessionIsolation ==
  [][\A b \in Sessions :
       ContextOf(activeContexts', b) # ContextOf(activeContexts, b)
         => (lastOp'.sessionId = b /\ lastOp'.op # "getConversationHistory")]_vars

\* a session was cleared while the other one keeps its history
C26_Witness ==
  \E a \in Sessions, b \in Sessions :
    /\ a # b
    /\ lastOp = [op |-> "clearConversation", sessionId |-> a, ok |-> TRUE]
    /\ arrived[a] >= 1 /\ ~MapHas(activeContexts, a)
    /\ Len(Messages(b)) >= 1

\* ---- C27
\* C27: a clearConversation call that fails upstream leaves the context map
\* as it was, and one that removes the session's context has succeeded.
C27_ClearOnlyAfterUpstream ==
  [][clears' # clears =>
       /\ ~lastOp'.ok => activeContexts' = activeContexts
       /\ activeContexts' # activeContexts =>
            (lastOp'.ok /\ activeContexts' = MapDelete(activeContexts, lastOp'.sessionId))]_vars

\* a failed clearConversation on a session that keeps its history
C27_Witness ==
  \E s \in Sessions :
    /\ lastOp = [op |-> "clearConversation", sessionId |-> s, ok |-> FALSE]
    /\ Len(Messages(s)) >= 1

\* ---- C28
\* C28: the HTTP server is started only after a database connection was
\* established, in development and in production, also when the first
\* connection attempt failed.
C28_ListenAfterConnect ==
  proc.server # "off" => proc.conn = "connected"

\* ---- C29
\* C29: after SIGTERM or SIGINT the database connection is closed only once
\* the HTTP server has closed, and the process exits with code 0 only when
\* both have closed.
C29_GracefulShutdown ==
  proc.signal # "none" =>
    /\ proc.dbClose # "none" => proc.server = "closed"
    /\ (proc.exited /\ proc.code = 0) => (proc.server = "closed" /\ proc.dbClose = "closed")

\* ---- C30
\* the positions of the header's entries whose language is supported
SupportedEntries(header) ==
  IF header = NoHeader THEN {}
  ELSE {i \in DOMAIN header : header[i].tag \in {"en", "hi", "pa"}}

\* C30: after the language detection middleware req.userLanguage is one of
\* en, hi, pa: the lang query parameter when that is supported, otherwise
\* the first supported entry of the Accept-Language header, otherwise en.
C30_UserLanguageDetected ==
  call.fn = "languageDetection" =>
    LET q == call.input.queryLang
        entries == SupportedEntries(call.input.acceptLanguage)
    IN /\ call.result \in {"en", "hi", "pa"}
       /\ call.result =
            IF q \in {"en", "hi", "pa"} THEN q
            ELSE IF entries # {}
              THEN call.input.acceptLanguage[CHOOSE i \in entries : \A j \in entries : i <= j].tag
            ELSE "en"

\* an unsupported query parameter, and a header whose second entry is the
\* first supported one
C30_Witness ==
  /\ call.fn = "languageDetection"
  /\ call.input.queryLang = "xx"
  /\ Len(call.input.acceptLanguage) = 3
  /\ call.input.acceptLanguage[1].tag = "fr"
  /\ call.input.acceptLanguage[2] = [tag |-> "pa", params |-> TRUE]
  /\ call.input.acceptLanguage[3].tag = "hi"
  /\ call.result = "pa"
====
